---- MODULE Spec2Model ----
(***************************************************************************)
(* PyBacktester: the historic CSV data handler (data.py) and the           *)
(* performance measures (performance.py) as state machines.                *)
(*                                                                         *)
(* Floats that may be NaN are modelled as sequences of length 0 or 1:      *)
(* <<>> is NaN and <<v>> is the number v.  The same encoding is used for   *)
(* Python's None and for the outcome of next() on a generator.             *)
(***************************************************************************)
EXTENDS Integers, Sequences, FiniteSets, TLC

\* ------------------------------------------------------------------ bounds
\* timestamps of the CSV rows are drawn from 1..MaxTime
MaxTime == 3
\* update_bars() is called at most MaxCalls times
MaxCalls == 5
\* the N argument of get_latest_bars / get_latest_bar_values is in 0..MaxN
MaxN == 3
\* create_drawdowns is applied to pnl series of at most MaxPnlLen points
MaxPnlLen == 5
\* whose values lie in -MaxPnlAbs..MaxPnlAbs
MaxPnlAbs == 2
\* create_sharpe_ratio is applied to returns series of at most MaxReturnsLen
\* points
MaxReturnsLen == 4
\* whose values lie in -MaxReturnAbs..MaxReturnAbs
MaxReturnAbs == 2

\* -------------------------------------------------------------- universes
SymbolUniverse == {"AAA", "BBB"}
UnknownSymbol == "ZZZ"
Times == 1..MaxTime

NaN == <<>>
Num(v) == <<v>>
IsNaN(x) == x = <<>>

None == <<>>
Some(v) == <<v>>

Range(f) == {f[i] : i \in DOMAIN f}
Last(seq) == seq[Len(seq)]

VARIABLES
  csv,                 \* the files <symbol>.csv in csv_dir: rows in file order
  symbol_list,         \* self.symbol_list
  symbol_data,         \* self.symbol_data[s]: the rows the iterrows() generator has still to yield
  latest_symbol_data,  \* self.latest_symbol_data[s]: the bars revealed so far
  continue_backtest,   \* self.continue_backtest
  events,              \* self.events: the event queue
  calls,               \* number of update_bars() calls made so far
  reply,               \* outcome of the last accessor call
  pnl,                 \* argument of create_drawdowns
  perf,                \* what create_drawdowns computed
  returns,             \* argument of create_sharpe_ratio
  periods,             \* argument of create_sharpe_ratio
  sharpe               \* outcome of create_sharpe_ratio

vars == <<csv, symbol_list, symbol_data, latest_symbol_data, continue_backtest,
          events, calls, reply, pnl, perf, returns, periods, sharpe>>

dataVars == <<csv, symbol_list, symbol_data, latest_symbol_data,
              continue_backtest, events, calls>>

sharpeVars == <<returns, periods, sharpe>>

\* ------------------------------------------------------------- CSV files
\* The close of the row of symbol s stamped t: distinct for distinct rows, so
\* that a bar shows which observation it carries.
RawClose(s, t) == (IF s = "AAA" THEN 100 ELSE 200) + 10 * t

\* Sequences of distinct timestamps, in any order.
InjectiveSeqs(S) ==
  {q \in UNION {[1..k -> S] : k \in 0..Cardinality(S)} :
     \A i, j \in DOMAIN q : i # j => q[i] # q[j]}

\* A file: its rows stamped stamps (in file order, no timestamp twice);
\* without the close column when complete is FALSE.
CsvFile(s, stamps, complete) ==
  [i \in DOMAIN stamps |->
     [datetime |-> stamps[i],
      close |-> IF complete THEN Num(RawClose(s, stamps[i])) ELSE NaN]]

CsvFiles(s) ==
  {CsvFile(s, q, c) : q \in InjectiveSeqs(Times), c \in BOOLEAN}

IsAscending(rows) ==
  \A i, j \in DOMAIN rows : i < j => rows[i].datetime < rows[j].datetime

WellFormed(rows) ==
  IsAscending(rows) /\ \A i \in DOMAIN rows : ~IsNaN(rows[i].close)

\* Lists of distinct symbols.
SymbolLists == InjectiveSeqs(SymbolUniverse)

\* ---------------------------------------------------------------- pandas
\* (mutant: the frame is left in file order)
SortSkipped(rows) == rows

\* DataFrame.sort() with no columns given (pandas before 0.20, the API the
\* module is written against): the rows in ascending order of the index.
SortByIndex(rows) ==
  LET n == Len(rows)
      rank(i) == 1 + Cardinality({j \in 1..n : rows[j].datetime < rows[i].datetime})
  IN  [k \in 1..n |-> rows[CHOOSE i \in 1..n : rank(i) = k]]

\* read_csv(...): the rows of the file; a column the file lacks is NaN.
ReadCsv(file) == file

\* DataFrame.index
IndexOf(df) == [i \in DOMAIN df |-> df[i].datetime]

\* The ascending sequence of the members of a set of timestamps.
SortedSeq(S) ==
  [k \in 1..Cardinality(S) |->
     CHOOSE t \in S : Cardinality({u \in S : u < t}) = k - 1]

\* Index.union: a new index, the sorted union; neither operand is changed.
IndexUnion(a, b) == SortedSeq(Range(a) \cup Range(b))

\* (mutant: method='bfill', each point takes the next row and not the last)
ReindexBackfill(df, target) ==
  [k \in DOMAIN target |->
     LET t == target[k]
         from == {i \in DOMAIN df : df[i].datetime >= t}
     IN  [datetime |-> t,
          close |-> IF from = {} THEN NaN
                    ELSE df[CHOOSE i \in from : \A j \in from : i <= j].close]]

\* DataFrame.reindex(index=target, method='pad') of a frame sorted by index:
\* at each point of target the last row of df whose index is <= the point (the
\* row as it is, NaN fields included), a row of NaN when there is none.
Reindex(df, target) ==
  [k \in DOMAIN target |->
     LET t == target[k]
         upto == {i \in DOMAIN df : df[i].datetime <= t}
     IN  [datetime |-> t,
          close |-> IF upto = {} THEN NaN
                    ELSE df[CHOOSE i \in upto : \A j \in upto : j <= i].close]]

\* ------------------------------------------ _open_convert_csv_files
\* One pass of the first loop over comb_idx: the first index is kept; for a
\* later symbol comb_idx.union(...) is evaluated, its result is bound to
\* nothing, and comb_idx stays what it was.
CombineIndex(comb_idx, idx) ==
  IF comb_idx = None THEN Some(idx)
  ELSE LET unbound == IndexUnion(comb_idx[1], idx)
       IN  comb_idx

\* The frame loaded for a symbol.
LoadedFrame(files, s) == SortByIndex(ReadCsv(files[s]))

RECURSIVE CombIdxAfter(_, _, _)
\* comb_idx after the first loop has handled symbols 1..n of the list
CombIdxAfter(files, list, n) ==
  IF n = 0 THEN None
  ELSE CombineIndex(CombIdxAfter(files, list, n - 1),
                    IndexOf(LoadedFrame(files, list[n])))

CombIdx(files, list) == CombIdxAfter(files, list, Len(list))

\* self.symbol_data after the second loop: each frame reindexed on comb_idx
ReindexedSeries(files, list, s) ==
  Reindex(LoadedFrame(files, s), CombIdx(files, list)[1])

OpenConvertCsvFiles(files, list) ==
  [s \in Range(list) |-> ReindexedSeries(files, list, s)]

\* ---------------------------------------------------------- update_bars
\* (mutant: the series is iterated afresh on every call, as it would be were
\* symbol_data[s] a list and not a generator)
GetNewBarRestarted(gen) ==
  IF gen = <<>> THEN [bar |-> None, rest |-> gen]
  ELSE [bar |-> Some(Head(gen)), rest |-> gen]

\* next(self._get_new_bar(s)) on the generator gen: the next row, and the
\* generator advanced past it; None for StopIteration.
GetNewBar(gen) ==
  IF gen = <<>> THEN [bar |-> None, rest |-> gen]
  ELSE [bar |-> Some(Head(gen)), rest |-> Tail(gen)]

MarketEvent == [type |-> "MARKET"]

\* self.events.put(e)
Put(queue, e) == Append(queue, e)

\* (mutant: the put indented into the for loop, one event per symbol)
PutInLoop(queue, list) == queue \o [i \in 1..Len(list) |-> MarketEvent]

\* the put that follows the for loop over list: one event per call
PutAfterLoop(queue, list) == Put(queue, MarketEvent)

\* (mutant: the new bar put at the head of the list)
PrependBar(bars_list, got) ==
  IF got.bar = None THEN bars_list ELSE <<got.bar[1]>> \o bars_list

\* (mutant: a row of NaN taken for "no bar" and not appended)
AppendBarSkipNaN(bars_list, got) ==
  IF got.bar = None THEN bars_list
  ELSE IF IsNaN(got.bar[1].close) THEN bars_list
  ELSE Append(bars_list, got.bar[1])

\* latest_symbol_data[s] after the loop body for s: the bar appended, nothing
\* on StopIteration (a row is never None)
AppendBar(bars_list, got) ==
  IF got.bar = None THEN bars_list ELSE Append(bars_list, got.bar[1])

NoReply == [op |-> "none", symbol |-> "", N |-> 0, raised |-> "", value |-> <<>>]
NoPerf == [done |-> FALSE, hwm |-> <<>>, drawdown |-> <<>>, duration |-> <<>>,
           max_dd |-> NaN, max_duration |-> NaN]

\* a float: NaN, an infinity of the sign given, or the finite number
\* sign * sqrt(num / den)
FNaN == [kind |-> "nan", sign |-> 0, num |-> 0, den |-> 1]
FInf(sign) == [kind |-> "inf", sign |-> sign, num |-> 0, den |-> 1]
FZero == [kind |-> "finite", sign |-> 0, num |-> 0, den |-> 1]
FRoot(sign, num, den) ==
  IF sign = 0 \/ num = 0 THEN FZero
  ELSE [kind |-> "finite", sign |-> sign, num |-> num, den |-> den]

\* periods=252
DefaultPeriods == 252

NoSharpe == [done |-> FALSE, raised |-> "", value |-> FNaN]

\* no call of create_sharpe_ratio is under way
SharpeIdle ==
  /\ returns = <<>>
  /\ periods = DefaultPeriods
  /\ sharpe = NoSharpe

update_bars ==
  /\ calls < MaxCalls
  /\ symbol_data' =
       [s \in DOMAIN symbol_data |-> GetNewBar(symbol_data[s]).rest]
  /\ latest_symbol_data' =
       [s \in DOMAIN latest_symbol_data |->
          AppendBar(latest_symbol_data[s], GetNewBar(symbol_data[s]))]
  /\ continue_backtest' =
       IF \E i \in DOMAIN symbol_list : GetNewBar(symbol_data[symbol_list[i]]).bar = None
       THEN FALSE ELSE continue_backtest
  /\ events' = PutAfterLoop(events, symbol_list)
  /\ calls' = calls + 1
  /\ reply' = NoReply
  /\ UNCHANGED <<csv, symbol_list, pnl, perf, sharpeVars>>

\* ----------------------------------------------------------------- Init
\* The state __init__ leaves, for the files and the symbol list given.
Constructed(files, list) ==
  /\ csv = files
  /\ symbol_list = list
  /\ symbol_data = OpenConvertCsvFiles(files, list)
  /\ latest_symbol_data = [s \in Range(list) |-> <<>>]
  /\ continue_backtest = TRUE
  /\ events = <<>>
  /\ calls = 0
  /\ reply = NoReply
  /\ pnl = <<>>
  /\ perf = NoPerf
  /\ SharpeIdle

Init ==
  \E list \in SymbolLists :
    \E fa \in CsvFiles("AAA"), fb \in CsvFiles("BBB") :
      Constructed([s \in SymbolUniverse |-> IF s = "AAA" THEN fa ELSE fb], list)

Next == update_bars

Spec == Init /\ [][Next]_vars
\* ------------------------------------------------------------ accessors
\* Python's seq[start:]
PySliceFrom(seq, start) ==
  LET n == Len(seq)
      from == IF start < 0 THEN (IF n + start < 0 THEN 0 ELSE n + start)
              ELSE (IF start > n THEN n ELSE start)
  IN  SubSeq(seq, from + 1, n)

Returned(v) == [raised |-> "", value |-> v]
Raised(e) == [raised |-> e, value |-> <<>>]

\* (mutant: bars_list[-1:] in place of bars_list[-1], which raises nothing)
GetLatestBarSliced(lsd, symbol) ==
  IF symbol \notin DOMAIN lsd THEN Raised("KeyError")
  ELSE Returned(PySliceFrom(lsd[symbol], -1))

\* get_latest_bar(symbol): KeyError from the dict, IndexError from [-1] on an
\* empty list; the bar returned is held in a sequence of one
GetLatestBar(lsd, symbol) ==
  IF symbol \notin DOMAIN lsd THEN Raised("KeyError")
  ELSE IF lsd[symbol] = <<>> THEN Raised("IndexError")
  ELSE Returned(<<Last(lsd[symbol])>>)

\* get_latest_bars(symbol, N): bars_list[-N:]
GetLatestBars(lsd, symbol, N) ==
  IF symbol \notin DOMAIN lsd THEN Raised("KeyError")
  ELSE Returned(PySliceFrom(lsd[symbol], -N))

\* get_latest_bar_values(symbol, "close", N)
GetLatestBarValues(lsd, symbol, N) ==
  LET got == GetLatestBars(lsd, symbol, N)
  IN  IF got.raised = "KeyError" THEN got
      ELSE Returned([i \in DOMAIN got.value |-> got.value[i].close])

QuerySymbols == SymbolUniverse \cup {UnknownSymbol}

Answer(op, symbol, N, out) ==
  [op |-> op, symbol |-> symbol, N |-> N, raised |-> out.raised, value |-> out.value]

get_latest_bar ==
  /\ \E symbol \in QuerySymbols :
       reply' = Answer("get_latest_bar", symbol, 1,
                       GetLatestBar(latest_symbol_data, symbol))
  /\ UNCHANGED <<dataVars, pnl, perf, sharpeVars>>

get_latest_bars ==
  /\ \E symbol \in QuerySymbols, N \in 0..MaxN :
       reply' = Answer("get_latest_bars", symbol, N,
                       GetLatestBars(latest_symbol_data, symbol, N))
  /\ UNCHANGED <<dataVars, pnl, perf, sharpeVars>>

get_latest_bar_values ==
  /\ \E symbol \in QuerySymbols, N \in 0..MaxN :
       reply' = Answer("get_latest_bar_values", symbol, N,
                       GetLatestBarValues(latest_symbol_data, symbol, N))
  /\ UNCHANGED <<dataVars, pnl, perf, sharpeVars>>

\* The accessors read latest_symbol_data alone: they are exercised on handlers
\* built from well-formed files.
WellFormedFiles(s) == {f \in CsvFiles(s) : WellFormed(f)}

InitQuery ==
  \E list \in SymbolLists :
    \E fa \in WellFormedFiles("AAA"), fb \in WellFormedFiles("BBB") :
      Constructed([s \in SymbolUniverse |-> IF s = "AAA" THEN fa ELSE fb], list)

NextQuery ==
  \/ update_bars
  \/ get_latest_bar
  \/ get_latest_bars
  \/ get_latest_bar_values

SpecQuery == InitQuery /\ [][NextQuery]_vars

\* ------------------------------------------------- create_drawdowns
\* x + c on floats: NaN + c is NaN
FAdd(x, c) == IF IsNaN(x) THEN NaN ELSE Num(x[1] + c)

MaxOf(S) == CHOOSE m \in S : \A x \in S : x <= m

\* Series.max(): the greatest value that is not NaN; NaN when there is none
SeriesMax(series) ==
  LET vals == {series[i][1] : i \in {j \in DOMAIN series : ~IsNaN(series[j])}}
  IN  IF vals = {} THEN NaN ELSE Num(MaxOf(vals))

\* Sequences are indexed from 1: element k stands for Python's index k - 1.
RECURSIVE HwmFromFirst(_, _)
\* (mutant: hwm = [pnl[0]], the mark started at the first point)
HwmFromFirst(p, k) ==
  IF k = 1 THEN p[1]
  ELSE LET prev == HwmFromFirst(p, k - 1)
       IN  IF prev >= p[k] THEN prev ELSE p[k]

RECURSIVE HwmAt(_, _)
\* hwm[k - 1]: hwm = [0], then hwm.append(max(hwm[i-1], pnl[i]))
HwmAt(p, k) ==
  IF k = 1 THEN 0
  ELSE LET prev == HwmAt(p, k - 1)
       IN  IF prev >= p[k] THEN prev ELSE p[k]

\* drawdown[k - 1]: pd.Series(index=idx) is all NaN, and the loop starts at 1
DrawdownAt(p, k) ==
  IF k = 1 THEN NaN ELSE Num(HwmAt(p, k) - p[k])

RECURSIVE DurationAt(_, _)
\* duration[k - 1]: NaN at 0, then 0 if drawdown[i] == 0 else duration[i-1] + 1
DurationAt(p, k) ==
  IF k = 1 THEN NaN
  ELSE IF DrawdownAt(p, k) = Num(0) THEN Num(0)
  ELSE FAdd(DurationAt(p, k - 1), 1)

\* what create_drawdowns(pnl) computes: hwm, the two series, and the maxima
\* it returns
CreateDrawdowns(p) ==
  [done |-> TRUE,
   hwm |-> IF p = <<>> THEN <<0>> ELSE [k \in DOMAIN p |-> HwmAt(p, k)],
   drawdown |-> [k \in DOMAIN p |-> DrawdownAt(p, k)],
   duration |-> [k \in DOMAIN p |-> DurationAt(p, k)],
   max_dd |-> SeriesMax([k \in DOMAIN p |-> DrawdownAt(p, k)]),
   max_duration |-> SeriesMax([k \in DOMAIN p |-> DurationAt(p, k)])]

create_drawdowns ==
  /\ ~perf.done
  /\ perf' = CreateDrawdowns(pnl)
  /\ UNCHANGED <<dataVars, reply, pnl, sharpeVars>>

PnlValues == (0 - MaxPnlAbs)..MaxPnlAbs
PnlSeries == UNION {[1..n -> PnlValues] : n \in 0..MaxPnlLen}

\* A pnl series is drawn; no data handler is involved (one with no symbols
\* stands by).
InitPerf ==
  /\ pnl \in PnlSeries
  /\ perf = NoPerf
  /\ SharpeIdle
  /\ csv = [s \in SymbolUniverse |-> <<>>]
  /\ symbol_list = <<>>
  /\ symbol_data = OpenConvertCsvFiles(csv, symbol_list)
  /\ latest_symbol_data = [s \in Range(symbol_list) |-> <<>>]
  /\ continue_backtest = TRUE
  /\ events = <<>>
  /\ calls = 0
  /\ reply = NoReply

NextPerf == create_drawdowns

SpecPerf == InitPerf /\ [][NextPerf]_vars

\* ------------------------------------------------ create_sharpe_ratio
RECURSIVE SumOf(_)
SumOf(seq) == IF seq = <<>> THEN 0 ELSE Head(seq) + SumOf(Tail(seq))

Sgn(x) == IF x > 0 THEN 1 ELSE IF x < 0 THEN 0 - 1 ELSE 0

\* np.mean: sum / n; NaN (and a warning) for no element
NpMean(r) ==
  IF r = <<>> THEN FNaN
  ELSE FRoot(Sgn(SumOf(r)), SumOf(r) * SumOf(r), Len(r) * Len(r))

\* np.std (ddof = 0): sqrt(mean(x^2) - mean(x)^2) = sqrt(n * sum(x^2) - sum(x)^2) / n
NpStd(r) ==
  IF r = <<>> THEN FNaN
  ELSE LET n == Len(r)
           sq == SumOf([i \in DOMAIN r |-> r[i] * r[i]])
       IN  FRoot(1, n * sq - SumOf(r) * SumOf(r), n * n)

\* np.sqrt: NaN (and a warning) below 0
NpSqrt(p) == IF p < 0 THEN FNaN ELSE FRoot(Sgn(p), p, 1)

\* x * y on floats
FMul(x, y) ==
  IF x.kind = "nan" \/ y.kind = "nan" THEN FNaN
  ELSE IF x.kind = "inf" \/ y.kind = "inf"
       THEN (IF x.sign * y.sign = 0 THEN FNaN ELSE FInf(x.sign * y.sign))
  ELSE FRoot(x.sign * y.sign, x.num * y.num, x.den * y.den)

\* x / y in IEEE arithmetic, y never -0.0: 0/0 is NaN and x/0 an infinity
FQuotient(x, y) ==
  IF x.kind = "nan" \/ y.kind = "nan" THEN FNaN
  ELSE IF y.kind = "inf"
       THEN (IF x.kind = "inf" THEN FNaN ELSE FZero)
  ELSE IF y.sign = 0
       THEN (IF x.sign = 0 THEN FNaN ELSE FInf(x.sign))
  ELSE IF x.kind = "inf" THEN FInf(x.sign * y.sign)
  ELSE FRoot(x.sign * y.sign, x.num * y.den, x.den * y.num)

\* (mutant: the division of Python floats, which raises on a zero divisor)
PyDivide(x, y) ==
  IF y.kind = "finite" /\ y.sign = 0
  THEN [raised |-> "ZeroDivisionError", value |-> FNaN]
  ELSE [raised |-> "", value |-> FQuotient(x, y)]

\* x / y on numpy floats: nothing is raised (a zero divisor gives a warning)
NpDivide(x, y) == [raised |-> "", value |-> FQuotient(x, y)]

\* (mutant: the ratio upside down)
CreateSharpeRatioInverted(r, p) ==
  NpDivide(NpStd(r), FMul(NpSqrt(p), NpMean(r)))

\* np.sqrt(periods) * (np.mean(returns)) / np.std(returns)
CreateSharpeRatio(r, p) ==
  NpDivide(FMul(NpSqrt(p), NpMean(r)), NpStd(r))

create_sharpe_ratio ==
  /\ ~sharpe.done
  /\ LET out == CreateSharpeRatio(returns, periods)
     IN  sharpe' = [done |-> TRUE, raised |-> out.raised, value |-> out.value]
  /\ UNCHANGED <<dataVars, reply, pnl, perf, returns, periods>>

ReturnValues == (0 - MaxReturnAbs)..MaxReturnAbs
ReturnSeries == UNION {[1..n -> ReturnValues] : n \in 0..MaxReturnsLen}
PeriodsValues == {0 - 1, 0, 1, DefaultPeriods}

\* A returns series and an annualisation factor are drawn; no data handler is
\* involved (one with no symbols stands by).
InitSharpe ==
  /\ returns \in ReturnSeries
  /\ periods \in PeriodsValues
  /\ sharpe = NoSharpe
  /\ pnl = <<>>
  /\ perf = NoPerf
  /\ csv = [s \in SymbolUniverse |-> <<>>]
  /\ symbol_list = <<>>
  /\ symbol_data = OpenConvertCsvFiles(csv, symbol_list)
  /\ latest_symbol_data = [s \in Range(symbol_list) |-> <<>>]
  /\ continue_backtest = TRUE
  /\ events = <<>>
  /\ calls = 0
  /\ reply = NoReply

NextSharpe == create_sharpe_ratio

SpecSharpe == InitSharpe /\ [][NextSharpe]_vars

\* ------------------------------------------------------------- properties
Min(a, b) == IF a <= b THEN a ELSE b

IsPrefix(p, q) == Len(p) <= Len(q) /\ \A i \in DOMAIN p : p[i] = q[i]

\* the series replayed for s, whole: what was revealed and what is still to come
FullSeries(s) == ReindexedSeries(csv, symbol_list, s)

\* C1: after k calls to update_bars() the revealed history of every listed
\* symbol s has length min(k, L_s), L_s the length of the reindexed series
\* replayed for s.
C1_RevealedLength ==
  \A s \in Range(symbol_list) :
    Len(latest_symbol_data[s]) = Min(calls, Len(FullSeries(s)))

\* C1 witness: a series of two or more bars replayed to its end and called
\* once more, so that both arms of the min have been taken.
C1_Witness ==
  \E s \in Range(symbol_list) :
    /\ Len(FullSeries(s)) >= 2
    /\ calls > Len(FullSeries(s))
    /\ Len(latest_symbol_data[s]) = Len(FullSeries(s))

\* C2: look-ahead guard.  Every revealed history is a prefix, in timeline
\* order, of the symbol's reindexed series and holds no more bars than
\* update_bars() calls were made; a step only appends, and at most one bar per
\* symbol.
C2_LookAheadGuard ==
  /\ [](\A s \in Range(symbol_list) :
          /\ IsPrefix(latest_symbol_data[s], FullSeries(s))
          /\ Len(latest_symbol_data[s]) <= calls)
  /\ [][\A s \in Range(symbol_list) :
          /\ IsPrefix(latest_symbol_data[s], latest_symbol_data'[s])
          /\ Len(latest_symbol_data'[s]) <= Len(latest_symbol_data[s]) + 1]_vars

\* C2 witness: two symbols, each with two or more bars revealed and more to come.
C2_Witness ==
  /\ Len(symbol_list) = 2
  /\ \A s \in Range(symbol_list) :
       /\ Len(latest_symbol_data[s]) >= 2
       /\ symbol_data[s] # <<>>

\* the timestamps of the raw series of all listed symbols
AllRawTimes == UNION {Range(IndexOf(ReadCsv(csv[s]))) : s \in Range(symbol_list)}

\* C3 (as claimed): after construction every symbol's series lies on the
\* union of the timestamps of all symbols' raw series, and every revealed
\* history is empty.
C3_TimelineIsUnion ==
  calls = 0 =>
    \A s \in Range(symbol_list) :
      /\ IndexOf(symbol_data[s]) = SortedSeq(AllRawTimes)
      /\ latest_symbol_data[s] = <<>>

\* the rows of series stamped with one of stamps
Restrict(series, stamps) ==
  SelectSeq(series, LAMBDA row : row.datetime \in stamps)

\* C4 (as claimed): round trip.  The replayed series of a symbol restricted
\* to the symbol's own timestamps is the symbol's original observations.
C4_RoundTrip ==
  calls = 0 =>
    \A s \in Range(symbol_list) :
      Restrict(symbol_data[s], Range(IndexOf(ReadCsv(csv[s]))))
        = LoadedFrame(csv, s)

\* C5: every update_bars() call enqueues exactly one MarketEvent, whatever the
\* number of symbols and whether or not a symbol is exhausted: after k calls
\* the queue holds k MarketEvents and nothing else.
C5_OneMarketEventPerCall ==
  events = [i \in 1..calls |-> MarketEvent]

\* C5 witness: two symbols, a call that found them exhausted, and as many events as
\* calls.
C5_Witness ==
  /\ Len(symbol_list) = 2
  /\ ~continue_backtest
  /\ calls >= 2
  /\ Len(events) = calls

\* a listed symbol's file is malformed: timestamps out of order, or no close
Malformed == \E s \in Range(symbol_list) : ~WellFormed(csv[s])

Known == reply.symbol \in DOMAIN latest_symbol_data

\* the bars revealed for the symbol of the last accessor call
History == latest_symbol_data[reply.symbol]

\* C6 (as claimed): get_latest_bar and get_latest_bars fail with a lookup
\* error whenever the symbol is unknown or no bar has been revealed for it.
C6_LookupErrorOrBars ==
  (/\ reply.op \in {"get_latest_bar", "get_latest_bars"}
   /\ (~Known \/ History = <<>>))
  => reply.raised \in {"KeyError", "IndexError"}

\* C6 (amended): get_latest_bar fails with a lookup error exactly when the
\* symbol is unknown (KeyError) or has no revealed bar (IndexError);
\* get_latest_bars fails exactly when the symbol is unknown (KeyError), and
\* for a known symbol with no revealed bar it returns the empty list.
C6_LookupErrors ==
  /\ reply.op = "get_latest_bar" =>
       /\ ~Known => reply.raised = "KeyError"
       /\ (Known /\ History = <<>>) => reply.raised = "IndexError"
       /\ (Known /\ History # <<>>) =>
            (reply.raised = "" /\ reply.value = <<Last(History)>>)
  /\ reply.op = "get_latest_bars" =>
       /\ ~Known => reply.raised = "KeyError"
       /\ Known => reply.raised = ""
       /\ (Known /\ History = <<>>) => reply.value = <<>>

\* C6 witness: get_latest_bars asked for bars of a known symbol before any was
\* revealed, and answered without an error.
C6_Witness ==
  /\ reply.op = "get_latest_bars"
  /\ reply.N >= 1
  /\ Known
  /\ History = <<>>
  /\ reply.raised = ""

\* the last k members of seq
LastN(seq, k) == SubSeq(seq, Len(seq) - k + 1, Len(seq))

\* C7 (as claimed): for a known symbol with h revealed bars and n >= 0,
\* get_latest_bars and get_latest_bar_values return min(n, h) elements, the
\* most recent revealed bars (their closes), oldest first.
C7_LastNBars ==
  /\ (reply.op = "get_latest_bars" /\ Known) =>
       /\ reply.raised = ""
       /\ reply.value = LastN(History, Min(reply.N, Len(History)))
  /\ (reply.op = "get_latest_bar_values" /\ Known) =>
       /\ reply.raised = ""
       /\ reply.value =
            [i \in 1..Min(reply.N, Len(History)) |->
               LastN(History, Min(reply.N, Len(History)))[i].close]
\* C9 (as claimed): duration[0] = 0 and, for t >= 1, duration[t] = 0 exactly
\* when drawdown[t] = 0, and otherwise duration[t] is the number
\* duration[t-1] + 1.
C9_DurationRecurrence ==
  perf.done =>
    /\ pnl # <<>> => perf.duration[1] = Num(0)
    /\ \A k \in 2..Len(pnl) :
         /\ perf.duration[k] = Num(0) <=> perf.drawdown[k] = Num(0)
         /\ perf.drawdown[k] # Num(0) =>
              /\ ~IsNaN(perf.duration[k])
              /\ ~IsNaN(perf.duration[k - 1])
              /\ perf.duration[k][1] = perf.duration[k - 1][1] + 1

\* The reference forward pass: hwm[0] = drawdown[0] = duration[0] = 0, then
\* the recurrences.
RECURSIVE RefHwm(_, _)
RefHwm(p, k) ==
  IF k = 1 THEN 0
  ELSE IF RefHwm(p, k - 1) >= p[k] THEN RefHwm(p, k - 1) ELSE p[k]

RefDrawdown(p, k) == IF k = 1 THEN 0 ELSE RefHwm(p, k) - p[k]

RECURSIVE RefDuration(_, _)
RefDuration(p, k) ==
  IF k = 1 THEN 0
  ELSE IF RefDrawdown(p, k) = 0 THEN 0
  ELSE RefDuration(p, k - 1) + 1

\* C10 (as claimed): the maxima create_drawdowns returns are those of the
\* reference pass.
C10_MaximaOfReference ==
  (perf.done /\ pnl # <<>>) =>
    /\ perf.max_dd = Num(MaxOf({RefDrawdown(pnl, k) : k \in DOMAIN pnl}))
    /\ perf.max_duration = Num(MaxOf({RefDuration(pnl, k) : k \in DOMAIN pnl}))
\* C11 (as claimed): for every index t of pnl, t = 0 included, drawdown[t] is
\* a number >= 0, and it is 0 exactly when pnl[t] = hwm[t].
C11_DrawdownNonNegative ==
  perf.done =>
    \A k \in DOMAIN pnl :
      /\ ~IsNaN(perf.drawdown[k])
      /\ perf.drawdown[k][1] >= 0
      /\ perf.drawdown[k][1] = 0 <=> pnl[k] = perf.hwm[k]
\* every element of the series is the same: its standard deviation is 0
IsConstant(r) == r # <<>> /\ \A i, j \in DOMAIN r : r[i] = r[j]

\* C12: for a returns series of standard deviation 0 (a constant one, a
\* single element) create_sharpe_ratio raises nothing and returns a value that
\* is no finite number: NaN or an infinity.
C12_ZeroStdSentinel ==
  (sharpe.done /\ IsConstant(returns)) =>
    /\ sharpe.raised = ""
    /\ sharpe.value.kind \in {"nan", "inf"}

\* C12 witness: a constant series of several non-zero returns, answered with an
\* infinity.
C12_Witness ==
  /\ sharpe.done
  /\ Len(returns) >= 2
  /\ IsConstant(returns)
  /\ returns[1] # 0
  /\ sharpe.raised = ""
  /\ sharpe.value.kind = "inf"

\* C13 (as claimed): whenever the standard deviation is > 0 the sign of the
\* ratio is the sign of mean(returns), for every periods.
C13_SignOfMean ==
  (sharpe.done /\ returns # <<>> /\ ~IsConstant(returns)) =>
    /\ sharpe.value.kind = "finite"
    /\ sharpe.value.sign = Sgn(SumOf(returns))

\* C13 (amended): whenever the standard deviation is > 0 and periods > 0 the
\* ratio is a finite number whose sign is the sign of mean(returns).
C13_SignOfMeanPositivePeriods ==
  (sharpe.done /\ returns # <<>> /\ ~IsConstant(returns) /\ periods > 0) =>
    /\ sharpe.raised = ""
    /\ sharpe.value.kind = "finite"
    /\ sharpe.value.sign = Sgn(SumOf(returns))

\* C13 witness: returns that vary and sum below 0, annualised over 252
\* periods, and a negative ratio.
C13_Witness ==
  /\ sharpe.done
  /\ periods = DefaultPeriods
  /\ ~IsConstant(returns)
  /\ SumOf(returns) < 0
  /\ sharpe.value.sign = 0 - 1
\* C16 (as claimed): a call that enqueues a MarketEvent has revealed one new
\* bar for every symbol.
C16_EventAnnouncesBars ==
  [][Len(events') > Len(events) =>
       \A s \in Range(symbol_list) :
         Len(latest_symbol_data'[s]) = Len(latest_symbol_data[s]) + 1]_vars

\* C16 (amended): every update_bars() call enqueues one MarketEvent.  The call
\* either reveals the next bar of every symbol and leaves the continue flag as
\* it is, or, the series being exhausted, reveals no bar, sets the flag false
\* and enqueues the MarketEvent all the same.
C16_EventOnEveryCall ==
  [][/\ events' = Append(events, MarketEvent)
     /\ \/ /\ \A s \in Range(symbol_list) :
                /\ symbol_data[s] # <<>>
                /\ latest_symbol_data'[s] =
                     Append(latest_symbol_data[s], Head(symbol_data[s]))
           /\ continue_backtest' = continue_backtest
        \/ /\ symbol_list # <<>>
           /\ \A s \in Range(symbol_list) :
                /\ symbol_data[s] = <<>>
                /\ latest_symbol_data'[s] = latest_symbol_data[s]
           /\ ~continue_backtest']_vars

\* C16 witness: two symbols with bars revealed, the series exhausted, and the
\* call that found them so has enqueued its MarketEvent.
C16_Witness ==
  /\ Len(symbol_list) = 2
  /\ ~continue_backtest
  /\ \A s \in Range(symbol_list) :
       Len(latest_symbol_data[s]) >= 1 /\ Len(events) > Len(latest_symbol_data[s])

\* the length of the timeline of a handler that has symbols
TimelineLen == Len(CombIdx(csv, symbol_list)[1])

\* C17: the continue flag starts true, turns false in the first
\* update_bars() call that finds a symbol with no unrevealed row, and never
\* turns true again; with a timeline of length L it is true after calls 1..L
\* and false from call L+1 on, so that the call after which a driver sees it
\* false for the first time is call L+1.
C17_ContinueFlag ==
  /\ [](calls = 0 => continue_backtest)
  /\ [](symbol_list # <<>> => (continue_backtest <=> calls <= TimelineLen))
  /\ [][/\ continue_backtest =>
             (~continue_backtest' <=>
                \E s \in Range(symbol_list) : symbol_data[s] = <<>>)
        /\ ~continue_backtest => ~continue_backtest'
        /\ (continue_backtest /\ ~continue_backtest') =>
             calls' = TimelineLen + 1]_vars

\* C17 witness: a timeline of two or more points replayed to its end, the flag
\* turned false by call L+1 and still false after call L+2.
C17_Witness ==
  /\ symbol_list # <<>>
  /\ TimelineLen >= 2
  /\ calls = TimelineLen + 2
  /\ ~continue_backtest

\* C18 (as claimed): for t >= 1, hwm[t] is the greatest of pnl[0..t].
C18_HwmIsRunningMax ==
  perf.done =>
    \A k \in 2..Len(pnl) :
      perf.hwm[k] = MaxOf({pnl[j] : j \in 1..k})

\* C18 (amended): for t >= 1, hwm[t] is the greatest of 0 and pnl[1..t]
\* (pnl[0] is not looked at), and drawdown[t] is the distance of pnl[t] below
\* it.
C18_HwmIsMaxOfZeroAndLater ==
  perf.done =>
    \A k \in 2..Len(pnl) :
      /\ perf.hwm[k] = MaxOf({0} \cup {pnl[j] : j \in 2..k})
      /\ perf.drawdown[k] = Num(MaxOf({0} \cup {pnl[j] : j \in 2..k}) - pnl[k])

\* C18 witness: a pnl whose first point is above 0 and above every later one.
C18_Witness ==
  /\ perf.done
  /\ Len(pnl) >= 3
  /\ pnl[1] > 0
  /\ pnl[1] > perf.hwm[Len(pnl)]

\* the rows of the file of s stamped at or before t
RawUpTo(s, t) == {i \in DOMAIN csv[s] : csv[s][i].datetime <= t}

\* the latest of a non-empty set of rows of the file of s
LatestRaw(s, rows) ==
  CHOOSE i \in rows : \A j \in rows : csv[s][j].datetime <= csv[s][i].datetime

\* C19: forward fill.  The bar replayed for a symbol at a timeline point t
\* carries the close of the symbol's latest raw observation stamped <= t, and
\* NaN when the symbol has no observation that early.
C19_ForwardFill ==
  \A s \in Range(symbol_list) :
    LET whole == latest_symbol_data[s] \o symbol_data[s]
    IN  \A k \in DOMAIN whole :
          LET seen == RawUpTo(s, whole[k].datetime)
          IN  whole[k].close =
                IF seen = {} THEN NaN ELSE csv[s][LatestRaw(s, seen)].close

\* C19 witness: a symbol for which update_bars() has revealed a bar of NaN
\* stamped before its first observation and a bar filled from an earlier
\* observation.
C19_Witness ==
  \E s \in Range(symbol_list) :
    LET h == latest_symbol_data[s]
        stamps == Range(IndexOf(csv[s]))
    IN  /\ \E k \in DOMAIN h :
             /\ IsNaN(h[k].close)
             /\ RawUpTo(s, h[k].datetime) = {}
        /\ \E k \in DOMAIN h :
             /\ ~IsNaN(h[k].close)
             /\ h[k].datetime \notin stamps
====
